---- MODULE Spec2Model ----
(***************************************************************************)
(* Model of yobert/schema: a directory of .sql/.csv change files is        *)
(* reconciled against the ledger table schemasupport.files and the         *)
(* outstanding files are applied in one transaction.                       *)
(*                                                                         *)
(* Paths and file texts are sequences of one-character strings, so that    *)
(* the regular expressions, the glob patterns, the byte-wise string        *)
(* comparison and strings.Trim are computed the way the code computes      *)
(* them.  The database is the ledger table, the existence of its namespace *)
(* and table, and the log of the statements whose effect is committed.     *)
(***************************************************************************)
EXTENDS Integers, Sequences, FiniteSets, TLC

\* ------------------------------------------------------------------------
\* Bounds of the model
\* ------------------------------------------------------------------------

\* Number of Run invocations in one behaviour.
MaxRuns == 3

\* ------------------------------------------------------------------------
\* Characters and strings
\* ------------------------------------------------------------------------

\* Byte value of the characters the model uses (Go compares strings bytewise).
Code ==
    (" " :> 32) @@ ("\n" :> 10) @@ ("\t" :> 9) @@ ("\r" :> 13) @@
    ("*" :> 42) @@ ("," :> 44) @@ ("." :> 46) @@ ("/" :> 47) @@
    ("0" :> 48) @@ ("1" :> 49) @@ ("2" :> 50) @@ ("3" :> 51) @@ ("4" :> 52) @@
    ("5" :> 53) @@ ("6" :> 54) @@ ("7" :> 55) @@ ("8" :> 56) @@ ("9" :> 57) @@
    (";" :> 59) @@ ("_" :> 95) @@
    ("a" :> 97) @@ ("b" :> 98) @@ ("c" :> 99) @@ ("d" :> 100) @@ ("e" :> 101) @@
    ("l" :> 108) @@ ("n" :> 110) @@ ("o" :> 111) @@ ("p" :> 112) @@
    ("q" :> 113) @@ ("r" :> 114) @@ ("s" :> 115) @@ ("t" :> 116) @@
    ("u" :> 117) @@ ("v" :> 118) @@ ("x" :> 120) @@ ("z" :> 122)

IsDigit(c) == Code[c] >= 48 /\ Code[c] <= 57

\* s < t for Go strings: bytewise lexicographic order.
RECURSIVE StrLess(_, _)
StrLess(s, t) ==
    IF t = <<>> THEN FALSE
    ELSE IF s = <<>> THEN TRUE
    ELSE IF Code[Head(s)] # Code[Head(t)] THEN Code[Head(s)] < Code[Head(t)]
    ELSE StrLess(Tail(s), Tail(t))

\* strings.HasSuffix
HasSuffix(s, suf) ==
    /\ Len(s) >= Len(suf)
    /\ SubSeq(s, Len(s) - Len(suf) + 1, Len(s)) = suf

\* strconv.Atoi on a string of decimal digits (the ids have 10 digits, which
\* fits Go's 64-bit int).
RECURSIVE Atoi(_)
Atoi(d) ==
    IF d = <<>> THEN 0
    ELSE 10 * Atoi(SubSeq(d, 1, Len(d) - 1)) + (Code[d[Len(d)]] - 48)

\* strings.Trim(s, "\t\v\r\n ")
TrimCutset == {"\t", "\r", "\n", " "}

RECURSIVE TrimLeft(_)
TrimLeft(s) ==
    IF s # <<>> /\ Head(s) \in TrimCutset THEN TrimLeft(Tail(s)) ELSE s

RECURSIVE TrimRight(_)
TrimRight(s) ==
    IF s # <<>> /\ s[Len(s)] \in TrimCutset
    THEN TrimRight(SubSeq(s, 1, Len(s) - 1)) ELSE s

Trim(s) == TrimRight(TrimLeft(s))

\* ------------------------------------------------------------------------
\* The regular expressions
\* ------------------------------------------------------------------------

\* Number of digits of a sequence id: the {10} of FileListMatch.
IdDigits == 10

\* Does \D(\d{10})\D match s with the \D at position i ?
IdMatchAt(s, i) ==
    /\ i >= 1 /\ i + IdDigits + 1 <= Len(s)
    /\ ~IsDigit(s[i])
    /\ \A k \in 1..IdDigits : IsDigit(s[i + k])
    /\ ~IsDigit(s[i + IdDigits + 1])

\* FileListMatch.FindStringSubmatch(s): the capture group of the leftmost
\* match, or <<>> for nil.
FileListMatch(s) ==
    LET at == {i \in 1..Len(s) : IdMatchAt(s, i)}
    IN  IF at = {} THEN <<>>
        ELSE LET i == CHOOSE j \in at : \A k \in at : j <= k
             IN  SubSeq(s, i + 1, i + IdDigits)

\* Positions of the separators of a path.
Slashes(s) == {i \in 1..Len(s) : s[i] = "/"}

\* TableFromPathMatch.FindStringSubmatch(file), /([^/]+)/[^/]+$ : the capture
\* group, or <<>> for nil.  The match ends at the end of the string, so its
\* last segment is what follows the last separator and its group is what lies
\* between the two last separators; both must be non-empty.
TableFromPathMatch(s) ==
    LET sl == Slashes(s)
    IN  IF Cardinality(sl) < 2 THEN <<>>
        ELSE LET last == CHOOSE i \in sl : \A k \in sl : k <= i
                 prev == CHOOSE i \in sl \ {last} : \A k \in sl \ {last} : k <= i
             IN  IF last = Len(s) \/ prev + 1 = last THEN <<>>
                 ELSE SubSeq(s, prev + 1, last - 1)

\* ------------------------------------------------------------------------
\* Change files on disk
\* ------------------------------------------------------------------------

\* options.SearchPath
SearchPath == <<"r">>

\* The ten digits of a sequence id, zero padded.
DigitChars == <<"0", "1", "2", "3", "4", "5", "6", "7", "8", "9">>
IdText(n) == [k \in 1..10 |-> DigitChars[((n \div (10 ^ (10 - k))) % 10) + 1]]

\* The change files of the model.  fileD carries the larger id and the
\* lexically smallest path; fileA and fileB carry no id and sort lexically
\* between fileD and fileC.
fileA == <<"r", "/", "t", "/", "a", ".", "s", "q", "l">>
fileB == <<"r", "/", "u", "/", "b", ".", "c", "s", "v">>
fileC == <<"r", "/", "z", "/">> \o IdText(1) \o <<"_", "c", ".", "s", "q", "l">>
fileD == <<"r", "/", "b", "/">> \o IdText(2) \o <<"_", "d", ".", "c", "s", "v">>
\* Files only the discovery specification puts on disk: one directly in the
\* search root, two nested more deeply, one with another extension.
fileTop  == <<"r", "/", "t", "o", "p", ".", "s", "q", "l">>
fileDeep == <<"r", "/", "t", "/", "s", "/", "d", "e", "e", "p", ".", "c", "s", "v">>
fileDeepSql == <<"r", "/", "t", "/", "s", "/", "x", ".", "s", "q", "l">>
fileTxt  == <<"r", "/", "t", "/", "n", ".", "t", "x", "t">>

RunFiles    == {fileA, fileB, fileC, fileD}
SearchFiles == RunFiles \cup {fileTop, fileDeep, fileDeepSql, fileTxt}

\* The contents a change file may have: four texts, see SqlRaw and
\* CsvRecords.  On disk 0 stands for "no file".
Contents == {1, 2, 3, 4}

\* The loose files fileA and fileB are edited between invocations and may
\* hold the same text; a file with a sequence id keeps the text it was
\* written with.
ContentsOf(p) ==
    IF p = fileC THEN {3} ELSE IF p = fileD THEN {4} ELSE {1, 2}

\* The regular files on disk: fs maps a path to its content, 0 for no file.
FilesOn(disk) == {p \in DOMAIN disk : disk[p] # 0}

\* file_md5: the digest of a file's content.  Distinct contents have distinct
\* digests (no MD5 collision among the contents of the model).
file_md5(content) == <<"md5", content>>

\* ------------------------------------------------------------------------
\* filepath.Glob
\* ------------------------------------------------------------------------

\* The segments of a path, split at the separators.
RECURSIVE Segments(_)
Segments(s) ==
    LET sl == Slashes(s)
    IN  IF sl = {} THEN <<s>>
        ELSE LET i == CHOOSE j \in sl : \A k \in sl : j <= k
             IN  <<SubSeq(s, 1, i - 1)>> \o Segments(SubSeq(s, i + 1, Len(s)))

\* filepath.Match for one path segment: "*" matches any sequence of
\* non-separator characters, any other character matches itself.  The
\* patterns of Search use no other metacharacter.
RECURSIVE Match(_, _)
Match(pattern, name) ==
    IF pattern = <<>> THEN name = <<>>
    ELSE IF Head(pattern) = "*"
         THEN \/ Match(Tail(pattern), name)
              \/ name # <<>> /\ Match(pattern, Tail(name))
         ELSE /\ name # <<>>
              /\ Head(name) = Head(pattern)
              /\ Match(Tail(pattern), Tail(name))

\* Segment-wise comparison: the order in which Glob lists its matches (the
\* names of every directory are sorted, directories are visited in order).
RECURSIVE SegsLess(_, _)
SegsLess(a, b) ==
    IF b = <<>> THEN FALSE
    ELSE IF a = <<>> THEN TRUE
    ELSE IF Head(a) # Head(b) THEN StrLess(Head(a), Head(b))
    ELSE SegsLess(Tail(a), Tail(b))

\* The elements of a set of paths in Glob's order.
RECURSIVE InGlobOrder(_)
InGlobOrder(S) ==
    IF S = {} THEN <<>>
    ELSE LET m == CHOOSE x \in S :
                      \A y \in S \ {x} : SegsLess(Segments(x), Segments(y))
         IN  <<m>> \o InGlobOrder(S \ {m})

\* Glob's "**" has no special meaning: Match reads it as two "*", each
\* confined to one segment, so a pattern of n segments matches paths of
\* exactly n segments.
GlobMatches(pattern, path) ==
    LET ps == Segments(pattern)
        ns == Segments(path)
    IN  /\ Len(ps) = Len(ns)
        /\ \A i \in 1..Len(ps) : Match(ps[i], ns[i])

\* filepath.Glob(pattern) over the regular files on disk.  (No directory of
\* the model has a name ending in .sql or .csv, so every match is a file.)
Glob(pattern, disk) ==
    InGlobOrder({p \in FilesOn(disk) : GlobMatches(pattern, p)})

\* ------------------------------------------------------------------------
\* List: sort.Interface
\* ------------------------------------------------------------------------

File(path, md5) == [Path |-> path, MD5 |-> md5]

\* Less that compares the paths of two files with ids, like those without.
LessByPath(f1, f2) ==
    LET m1 == FileListMatch(f1.Path)
        m2 == FileListMatch(f2.Path)
    IN  IF m1 = <<>> /\ m2 = <<>> THEN StrLess(f1.Path, f2.Path)
        ELSE IF m1 = <<>> THEN TRUE
        ELSE IF m2 = <<>> THEN FALSE
        ELSE StrLess(f1.Path, f2.Path)

\* List.Less on two elements.
Less(f1, f2) ==
    LET m1 == FileListMatch(f1.Path)
        m2 == FileListMatch(f2.Path)
    IN  IF m1 = <<>> /\ m2 = <<>> THEN StrLess(f1.Path, f2.Path)
        ELSE IF m1 = <<>> THEN TRUE
        ELSE IF m2 = <<>> THEN FALSE
        ELSE Atoi(m1) < Atoi(m2)

\* sort.Sort on a list of at most 12 elements is an insertion sort: each
\* element moves left while it is Less than its left neighbour.
RECURSIVE SinkLeft(_, _)
SinkLeft(l, j) ==
    IF j > 1 /\ Less(l[j], l[j - 1])
    THEN SinkLeft([l EXCEPT ![j] = l[j - 1], ![j - 1] = l[j]], j - 1)
    ELSE l

RECURSIVE SortFrom(_, _)
SortFrom(l, i) ==
    IF i > Len(l) THEN l ELSE SortFrom(SinkLeft(l, i), i + 1)

Sort(l) == SortFrom(l, 2)

\* ------------------------------------------------------------------------
\* Search
\* ------------------------------------------------------------------------

\* The two patterns of Search, appended to options.SearchPath + "/".
SearchPatterns ==
    << <<"*", "*", "/", "*", ".", "s", "q", "l">>,
       <<"*", "*", "/", "*", ".", "c", "s", "v">> >>

RECURSIVE Flatten(_)
Flatten(ll) == IF ll = <<>> THEN <<>> ELSE Head(ll) \o Flatten(Tail(ll))

\* The files Search appends, pattern after pattern, when Glob lists every
\* directory in sorted order.
Globbed(disk) ==
    LET found(s) == Glob(SearchPath \o <<"/">> \o s, disk)
        listed(s) == [i \in 1..Len(found(s)) |->
                         File(found(s)[i], file_md5(disk[found(s)[i]]))]
    IN  Flatten([k \in 1..Len(SearchPatterns) |-> listed(SearchPatterns[k])])

\* The orders in which the files may be found: Glob promises none.
Discoveries(disk) ==
    LET g == Globbed(disk)
        n == Len(g)
    IN  {[i \in 1..n |-> g[o[i]]] :
            o \in {q \in [1..n -> 1..n] : \A i, j \in 1..n : q[i] = q[j] => i = j}}

\* Search(options): the files found, sorted.
Search(found) == Sort(found)

\* ------------------------------------------------------------------------
\* Merge
\* ------------------------------------------------------------------------

NoError == [kind |-> "none", path |-> <<>>]
Error(kind, path) == [kind |-> kind, path |-> path]

\* paths[path] after the loop "paths[f.Path] = f" over list: the last entry
\* with that path wins.
LastWithPath(list, path) ==
    LET at == {i \in 1..Len(list) : list[i].Path = path}
    IN  list[CHOOSE i \in at : \A j \in at : j <= i]

PathKeys(list) == {list[i].Path : i \in 1..Len(list)}
MD5Keys(list) == {list[i].MD5 : i \in 1..Len(list)}

\* Merge with the "continue" of an already applied, unchanged file lost: the
\* file falls through to the plan.
RECURSIVE MergeFromNoSkip(_, _, _, _, _)
MergeFromNoSkip(old_list, new_list, i, run, n) ==
    IF i > Len(new_list) THEN [run |-> run, err |-> NoError, Files |-> n]
    ELSE LET f == new_list[i]
         IN  IF /\ f.Path \in PathKeys(old_list)
                /\ LastWithPath(old_list, f.Path).MD5 # f.MD5
             THEN [run |-> <<>>, err |-> Error("modified", f.Path),
                   Files |-> n + 1]
             ELSE IF f.Path \notin PathKeys(old_list) /\ f.MD5 \in MD5Keys(old_list)
                  THEN [run |-> <<>>, err |-> Error("duplicate", f.Path),
                        Files |-> n + 1]
                  ELSE MergeFromNoSkip(old_list, new_list, i + 1,
                                       Append(run, f), n + 1)

\* Merge that takes a modified file for an applied one and skips it.
RECURSIVE MergeFromNoDrift(_, _, _, _, _)
MergeFromNoDrift(old_list, new_list, i, run, n) ==
    IF i > Len(new_list) THEN [run |-> run, err |-> NoError, Files |-> n]
    ELSE LET f == new_list[i]
         IN  IF f.Path \in PathKeys(old_list)
             THEN MergeFromNoDrift(old_list, new_list, i + 1, run, n + 1)
             ELSE IF f.MD5 \in MD5Keys(old_list)
                  THEN [run |-> <<>>, err |-> Error("duplicate", f.Path),
                        Files |-> n + 1]
                  ELSE MergeFromNoDrift(old_list, new_list, i + 1,
                                        Append(run, f), n + 1)

\* Merge without the lookup in md5s: a new path is always planned.
RECURSIVE MergeFromNoDuplicate(_, _, _, _, _)
MergeFromNoDuplicate(old_list, new_list, i, run, n) ==
    IF i > Len(new_list) THEN [run |-> run, err |-> NoError, Files |-> n]
    ELSE LET f == new_list[i]
         IN  IF f.Path \in PathKeys(old_list)
             THEN IF LastWithPath(old_list, f.Path).MD5 = f.MD5
                  THEN MergeFromNoDuplicate(old_list, new_list, i + 1, run, n + 1)
                  ELSE [run |-> <<>>, err |-> Error("modified", f.Path),
                        Files |-> n + 1]
             ELSE MergeFromNoDuplicate(old_list, new_list, i + 1,
                                       Append(run, f), n + 1)

\* The loop of Merge from new_list[i] on: run is the plan so far, n the value
\* of stats.Files.  The result is the plan (<<>> for nil), the error and
\* stats.Files.
RECURSIVE MergeFrom(_, _, _, _, _)
MergeFrom(old_list, new_list, i, run, n) ==
    IF i > Len(new_list) THEN [run |-> run, err |-> NoError, Files |-> n]
    ELSE LET f == new_list[i]
         IN  IF f.Path \in PathKeys(old_list)
             THEN IF LastWithPath(old_list, f.Path).MD5 = f.MD5
                  THEN MergeFrom(old_list, new_list, i + 1, run, n + 1)
                  ELSE [run |-> <<>>, err |-> Error("modified", f.Path),
                        Files |-> n + 1]
             ELSE IF f.MD5 \in MD5Keys(old_list)
                  THEN [run |-> <<>>, err |-> Error("duplicate", f.Path),
                        Files |-> n + 1]
                  ELSE MergeFrom(old_list, new_list, i + 1, Append(run, f), n + 1)

Merge(old_list, new_list) == MergeFrom(old_list, new_list, 1, <<>>, 0)

\* ------------------------------------------------------------------------
\* File contents
\* ------------------------------------------------------------------------

\* The bytes of a .sql change file with content c: a statement wrapped in
\* white space.
SqlRaw(c) == <<" ", "\n", "s", DigitChars[(c % 10) + 1], ";", "\r", "\n">>

\* The records csv.Reader returns for a .csv change file with content c (the
\* header first).  Content 1 has a data row with an empty field; content 2
\* has a second data row with a missing field, at which csv.Reader reports
\* an error; content 4 has one column.
CsvRecords(c) ==
    IF c = 1 THEN << <<"id", "name">>, <<"1", "Alice">>, <<"2", "">> >>
    ELSE IF c = 2 THEN << <<"id", "name">>, <<"", "Bob">>, <<"5">> >>
    ELSE << <<"id">>, <<"7">> >>

\* A value bound to a placeholder: a text, or NULL.
Text(v) == [null |-> FALSE, text |-> v]
Null == [null |-> TRUE, text |-> ""]

\* A statement handed to tx.Exec.
SqlStatement(text) ==
    [kind |-> "sql", text |-> text, table |-> <<>>, columns |-> <<>>,
     values |-> <<>>]
InsertStatement(table, columns, values) ==
    [kind |-> "insert", text |-> <<>>, table |-> table, columns |-> columns,
     values |-> values]

\* ------------------------------------------------------------------------
\* schema_run_sql, schema_run_csv
\* ------------------------------------------------------------------------

\* Both return the statements tx.Exec has executed, the number of statements
\* sent (the failing one included) and the error.  failAt is the number of
\* the tx.Exec call the database rejects, 0 for none.

\* schema_run_sql(options, tx, file)
schema_run_sql(isDry, content, failAt) ==
    LET s == Trim(SqlRaw(content))
    IN  IF isDry THEN [ops |-> <<>>, sent |-> 0, err |-> "none"]
        ELSE IF failAt = 1 THEN [ops |-> <<>>, sent |-> 1, err |-> "exec"]
        ELSE [ops |-> <<SqlStatement(s)>>, sent |-> 1, err |-> "none"]

\* The values schema_run_csv of src/main.go binds for one data row: NULL for
\* an empty field.
BoundValuesOrNull(row) ==
    [i \in 1..Len(row) |-> IF row[i] = "" THEN Null ELSE Text(row[i])]

\* The values schema_run_csv binds for one data row: every field as it is.
BoundValues(row) == [i \in 1..Len(row) |-> Text(row[i])]

\* The loop of schema_run_csv from record i on; ops are the inserts executed
\* so far.
RECURSIVE CsvFrom(_, _, _, _, _, _)
CsvFrom(isDry, table, records, i, ops, failAt) ==
    IF i > Len(records) THEN [ops |-> ops, sent |-> Len(ops), err |-> "none"]
    ELSE IF Len(records[i]) # Len(records[1])
         THEN [ops |-> ops, sent |-> Len(ops), err |-> "csv"]
    ELSE IF isDry
         THEN CsvFrom(isDry, table, records, i + 1, ops, failAt)
    ELSE IF failAt = Len(ops) + 1
         THEN [ops |-> ops, sent |-> Len(ops) + 1, err |-> "exec"]
    ELSE CsvFrom(isDry, table, records, i + 1,
                 Append(ops, InsertStatement(table, records[1],
                                             BoundValues(records[i]))),
                 failAt)

\* schema_run_csv(options, tx, file)
schema_run_csv(isDry, file, content, failAt) ==
    LET table == TableFromPathMatch(file)
    IN  IF table = <<>> THEN [ops |-> <<>>, sent |-> 0, err |-> "table"]
        ELSE IF CsvRecords(content) = <<>>
             THEN [ops |-> <<>>, sent |-> 0, err |-> "none"]
        ELSE CsvFrom(isDry, table, CsvRecords(content), 2, <<>>, failAt)

\* The branch of Execute on the file's extension.
RunChangeFile(isDry, file, content, failAt) ==
    IF HasSuffix(file, <<".", "c", "s", "v">>)
    THEN schema_run_csv(isDry, file, content, failAt)
    ELSE schema_run_sql(isDry, content, failAt)

\* The tx.Exec calls a change file needs at most.
ExecCalls(file, content) ==
    IF HasSuffix(file, <<".", "c", "s", "v">>)
    THEN Len(CsvRecords(content)) - 1 ELSE 1

\* ------------------------------------------------------------------------
\* State
\* ------------------------------------------------------------------------

VARIABLES
    fs,          \* the disk: path -> content, 0 for no file
    nsExists,    \* the namespace schemasupport exists
    tblExists,   \* the table schemasupport.files exists
    ledger,      \* the committed rows of schemasupport.files, in insert order
    data,        \* the committed change-file statements, in execution order
    txOpen,      \* the transaction begun by Execute is open
    txLedger,    \* ledger rows inserted in the open transaction
    txData,      \* statements executed in the open transaction
    pc,          \* the position of Run
    dry,         \* options.Dry
    would_have,  \* options.would_have_made_files_table
    old_list,    \* Run's old_list
    new_list,    \* Run's new_list
    unran,       \* Run's unran, the run plan
    idx,         \* Execute's position in the plan
    stats,       \* *Stats
    err,         \* the error Run returns
    commit,      \* Execute's commit flag
    runs,        \* Run invocations so far
    start,       \* the database when the current Run was called
    sent,        \* the mutating statements this Run has sent to the database
    began,       \* this Run has called db.Begin
    executed,    \* the files Execute's loop has taken up, in order
    prev,        \* the outcome of the Run before, when it saw the same disk
    other        \* the state of a second process of the command, suspended

vars == <<fs, nsExists, tblExists, ledger, data, txOpen, txLedger, txData,
          pc, dry, would_have, old_list, new_list, unran, idx, stats, err,
          commit, runs, start, sent, began, executed, prev, other>>

dbVars == <<nsExists, tblExists, ledger, data>>
txVars == <<txOpen, txLedger, txData>>

\* The database as a value.
Database == [ns |-> nsExists, tbl |-> tblExists, ledger |-> ledger, data |-> data]

NoPrev == [valid |-> FALSE, dry |-> FALSE, unran |-> <<>>, err |-> NoError,
           start |-> <<>>]

\* There is no second process.
NoOther == [pc |-> "none"]

\* The errors Run returns before it calls Execute.
PlanErrors == {"load", "nofiles", "modified", "duplicate"}

\* Before the first invocation: the ledger's namespace and table may or may
\* not exist, the table is empty, nothing runs.
InitDatabaseAndRun ==
    /\ nsExists \in BOOLEAN
    /\ tblExists \in BOOLEAN
    /\ tblExists => nsExists
    /\ ledger = <<>>
    /\ data = <<>>
    /\ txOpen = FALSE
    /\ txLedger = <<>>
    /\ txData = <<>>
    /\ dry = FALSE
    /\ would_have = FALSE
    /\ old_list = <<>>
    /\ new_list = <<>>
    /\ unran = <<>>
    /\ idx = 0
    /\ stats = [Files |-> 0, New |-> 0]
    /\ err = NoError
    /\ commit = FALSE
    /\ runs = 0
    /\ start = Database
    /\ sent = <<>>
    /\ began = FALSE
    /\ executed = <<>>
    /\ prev = NoPrev

Init ==
    /\ fs = [p \in RunFiles |-> 0]
    /\ pc = "idle"
    /\ other = NoOther
    /\ InitDatabaseAndRun

\* ------------------------------------------------------------------------
\* main: one invocation of the tool
\* ------------------------------------------------------------------------

\* The process starts: main opens the database, builds a fresh Options value
\* (would_have_made_files_table is the zero value) and calls Run, which
\* allocates stats.  The disk may have been edited since the last invocation;
\* a connection left by the invocation before is closed, which ends its
\* transaction without a commit.
StartRun(isDry, disk) ==
    /\ pc \in {"idle", "done"}
    /\ runs < MaxRuns
    /\ runs' = runs + 1
    /\ fs' = disk
    /\ dry' = isDry
    /\ would_have' = FALSE
    /\ stats' = [Files |-> 0, New |-> 0]
    /\ err' = NoError
    /\ old_list' = <<>>
    /\ new_list' = <<>>
    /\ unran' = <<>>
    /\ idx' = 0
    /\ commit' = FALSE
    /\ txOpen' = FALSE
    /\ txLedger' = <<>>
    /\ txData' = <<>>
    /\ start' = Database
    /\ sent' = <<>>
    /\ began' = FALSE
    /\ executed' = <<>>
    /\ prev' = IF pc = "done" /\ disk = fs
               THEN [valid |-> TRUE, dry |-> dry, unran |-> unran, err |-> err,
                     start |-> start]
               ELSE NoPrev
    /\ pc' = "create"
    /\ UNCHANGED <<dbVars, other>>

\* ------------------------------------------------------------------------
\* Run, step by step
\* ------------------------------------------------------------------------

\* CreateSchemaSupport that drops the table before it creates it.
CreateSchemaSupportRecreatesTable ==
    /\ pc = "create"
    /\ IF dry
       THEN /\ would_have' = (would_have \/ ~tblExists)
            /\ UNCHANGED <<nsExists, tblExists, sent, ledger>>
       ELSE /\ nsExists' = TRUE
            /\ tblExists' = TRUE
            /\ ledger' = <<>>
            /\ sent' = sent \o (IF nsExists THEN <<>> ELSE <<"create schema">>)
                            \o <<"create table">>
            /\ UNCHANGED would_have
    /\ pc' = "load"
    /\ UNCHANGED <<other, fs, data, txVars, dry, old_list, new_list, unran, idx,
                   stats, err, commit, runs, start, began, executed, prev>>

\* CreateSchemaSupport that sends its create statements in dry mode too.
CreateSchemaSupportWhenDry ==
    /\ pc = "create"
    /\ nsExists' = TRUE
    /\ tblExists' = TRUE
    /\ sent' = sent \o (IF nsExists THEN <<>> ELSE <<"create schema">>)
                     \o (IF tblExists THEN <<>> ELSE <<"create table">>)
    /\ pc' = "load"
    /\ UNCHANGED <<other, fs, ledger, data, txOpen, txLedger, txData, dry, would_have,
                   old_list, new_list, unran, idx, stats, err, commit, runs,
                   start, began, executed, prev>>

\* CreateSchemaSupport(options): the two existence queries and the two
\* create statements, each sent at once when not dry.
CreateSchemaSupport ==
    /\ pc = "create"
    /\ IF dry
       THEN /\ would_have' = (would_have \/ ~tblExists)
            /\ UNCHANGED <<nsExists, tblExists, sent>>
       ELSE /\ nsExists' = TRUE
            /\ tblExists' = TRUE
            /\ sent' = sent \o (IF nsExists THEN <<>> ELSE <<"create schema">>)
                            \o (IF tblExists THEN <<>> ELSE <<"create table">>)
            /\ UNCHANGED would_have
    /\ pc' = "load"
    /\ UNCHANGED <<other, fs, ledger, data, txVars, dry, old_list, new_list, unran,
                   idx, stats, err, commit, runs, start, began, executed, prev>>

\* LoadExisting that returns its empty list without appending the rows.
LoadExistingNoRows ==
    /\ pc = "load"
    /\ old_list' = <<>>
    /\ pc' = "search"
    /\ UNCHANGED <<other, fs, nsExists, tblExists, ledger, data, txOpen, txLedger,
                   txData, dry, would_have, new_list, unran, idx, stats, err,
                   commit, runs, start, sent, began, executed, prev>>

\* LoadExisting without the dry-run case: it always queries the table.
LoadExistingAlwaysQueries ==
    /\ pc = "load"
    /\ IF ~tblExists
       THEN old_list' = <<>> /\ pc' = "done" /\ err' = Error("load", <<>>)
       ELSE old_list' = ledger /\ pc' = "search" /\ UNCHANGED err
    /\ UNCHANGED <<other, fs, nsExists, tblExists, ledger, data, txOpen, txLedger,
                   txData, dry, would_have, new_list, unran, idx, stats,
                   commit, runs, start, sent, began, executed, prev>>

\* LoadExisting(options): the rows of the ledger, none when dry and the table
\* would have been created; the query fails when the table is missing.
LoadExisting ==
    /\ pc = "load"
    /\ IF dry /\ would_have
       THEN old_list' = <<>> /\ pc' = "search" /\ UNCHANGED err
       ELSE IF ~tblExists
            THEN old_list' = <<>> /\ pc' = "done" /\ err' = Error("load", <<>>)
            ELSE old_list' = ledger /\ pc' = "search" /\ UNCHANGED err
    /\ UNCHANGED <<other, fs, dbVars, txVars, dry, would_have, new_list, unran, idx,
                   stats, commit, runs, start, sent, began, executed, prev>>

\* Search(options), and Run's check that something was found.
SearchFor ==
    /\ pc = "search"
    /\ \E found \in Discoveries(fs) : new_list' = Search(found)
    /\ IF new_list' = <<>>
       THEN pc' = "done" /\ err' = Error("nofiles", <<>>)
       ELSE pc' = "merge" /\ UNCHANGED err
    /\ UNCHANGED <<other, fs, dbVars, txVars, dry, would_have, old_list, unran, idx,
                   stats, commit, runs, start, sent, began, executed, prev>>

\* Merge called after a transaction was begun.
MergeListsInTx ==
    /\ pc = "merge"
    /\ LET m == Merge(old_list, new_list)
       IN  /\ unran' = m.run
           /\ err' = m.err
           /\ stats' = [stats EXCEPT !.Files = m.Files]
           /\ pc' = IF m.err = NoError THEN "execute" ELSE "done"
    /\ txOpen' = TRUE
    /\ began' = TRUE
    /\ UNCHANGED <<other, fs, dbVars, txLedger, txData, dry, would_have, old_list,
                   new_list, idx, commit, runs, start, sent, executed, prev>>

\* Merge(options, old_list, new_list, stats), and Run's return on its error.
MergeLists ==
    /\ pc = "merge"
    /\ LET m == Merge(old_list, new_list)
       IN  /\ unran' = m.run
           /\ err' = m.err
           /\ stats' = [stats EXCEPT !.Files = m.Files]
           /\ pc' = IF m.err = NoError THEN "execute" ELSE "done"
    /\ UNCHANGED <<other, fs, dbVars, txVars, dry, would_have, old_list, new_list,
                   idx, commit, runs, start, sent, began, executed, prev>>

\* Execute, its head: nothing to do for an empty plan, else db.Begin.
ExecuteBegin ==
    /\ pc = "execute"
    /\ IF unran = <<>>
       THEN pc' = "done" /\ UNCHANGED <<txOpen, began, idx>>
       ELSE pc' = "file" /\ txOpen' = TRUE /\ began' = TRUE /\ idx' = 1
    /\ UNCHANGED <<other, fs, dbVars, txLedger, txData, dry, would_have, old_list,
                   new_list, unran, stats, err, commit, runs, start, sent,
                   executed, prev>>

\* The deferred function of Execute on a return with commit = false.
Rollback ==
    /\ txOpen' = FALSE
    /\ txLedger' = <<>>
    /\ txData' = <<>>

\* Execute, the statements of the file at idx: schema_run_csv or
\* schema_run_sql.  Any tx.Exec may fail; an error returns from Execute, and
\* the deferred function rolls back.
ExecuteFile ==
    /\ pc = "file"
    /\ LET f == unran[idx]
       IN  \E failAt \in 0..(IF dry THEN 0 ELSE ExecCalls(f.Path, fs[f.Path])) :
             LET r == RunChangeFile(dry, f.Path, fs[f.Path], failAt)
             IN  /\ executed' = Append(executed, f)
                 /\ sent' = sent \o [i \in 1..r.sent |-> "statement"]
                 /\ IF r.err = "none"
                    THEN /\ txData' = txData \o r.ops
                         /\ pc' = "record"
                         /\ UNCHANGED <<txOpen, txLedger, err>>
                    ELSE /\ Rollback
                         /\ err' = Error(r.err, f.Path)
                         /\ pc' = "done"
    /\ UNCHANGED <<other, fs, dbVars, dry, would_have, old_list, new_list, unran, idx,
                   stats, commit, runs, start, began, prev>>

\* The ledger insert sent with db.Exec instead of tx.Exec: it commits at once.
LedgerInsertOutsideTx(row) ==
    /\ ledger' = Append(ledger, row)
    /\ UNCHANGED txLedger

\* tx.Exec of the ledger insert: the row is part of the open transaction.
LedgerInsert(row) ==
    /\ txLedger' = Append(txLedger, row)
    /\ UNCHANGED ledger

\* Execute's ledger insert without stats.New++.
ExecuteRecordNoCount ==
    /\ pc = "record"
    /\ \E ok \in (IF dry THEN {TRUE} ELSE BOOLEAN) :
         /\ sent' = IF dry THEN sent ELSE Append(sent, "ledger insert")
         /\ IF ok
            THEN /\ IF dry THEN UNCHANGED <<txLedger, ledger>>
                    ELSE LedgerInsert(unran[idx])
                 /\ idx' = idx + 1
                 /\ pc' = IF idx = Len(unran) THEN "commit" ELSE "file"
                 /\ UNCHANGED <<txOpen, txData, err>>
            ELSE /\ Rollback
                 /\ err' = Error("exec", unran[idx].Path)
                 /\ pc' = "done"
                 /\ UNCHANGED <<idx, ledger>>
    /\ UNCHANGED <<other, fs, nsExists, tblExists, data, dry, would_have, old_list,
                   new_list, unran, stats, commit, runs, start, began,
                   executed, prev>>

\* Execute, the ledger insert of the file at idx and stats.New++.
ExecuteRecord ==
    /\ pc = "record"
    /\ \E ok \in (IF dry THEN {TRUE} ELSE BOOLEAN) :
         /\ sent' = IF dry THEN sent ELSE Append(sent, "ledger insert")
         /\ IF ok
            THEN /\ IF dry THEN UNCHANGED <<txLedger, ledger>>
                    ELSE LedgerInsert(unran[idx])
                 /\ stats' = [stats EXCEPT !.New = @ + 1]
                 /\ idx' = idx + 1
                 /\ pc' = IF idx = Len(unran) THEN "commit" ELSE "file"
                 /\ UNCHANGED <<txOpen, txData, err>>
            ELSE /\ Rollback
                 /\ err' = Error("exec", unran[idx].Path)
                 /\ pc' = "done"
                 /\ UNCHANGED <<stats, idx, ledger>>
    /\ UNCHANGED <<other, fs, nsExists, tblExists, data, dry, would_have, old_list,
                   new_list, unran, commit, runs, start, began, executed, prev>>

\* The ledger insert made with "on conflict do nothing" on the path.
NotInLedger(row) == row.Path \notin PathKeys(ledger)

\* Execute's tail over a ledger whose path is unique: rows whose path the
\* ledger holds at the commit are dropped.
ExecuteCommitSkipsKnownPaths ==
    /\ pc = "commit"
    /\ commit' = TRUE
    /\ pc' = "done"
    /\ IF dry
       THEN UNCHANGED <<ledger, data, txVars, sent, err>>
       ELSE \E ok \in BOOLEAN :
              /\ sent' = Append(sent, "commit")
              /\ txOpen' = FALSE
              /\ txLedger' = <<>>
              /\ txData' = <<>>
              /\ IF ok
                 THEN /\ ledger' = ledger \o SelectSeq(txLedger, NotInLedger)
                      /\ data' = data \o txData
                      /\ UNCHANGED err
                 ELSE /\ err' = Error("commit", <<>>)
                      /\ UNCHANGED <<ledger, data>>
    /\ UNCHANGED <<other, fs, nsExists, tblExists, dry, would_have, old_list,
                   new_list, unran, idx, stats, runs, start, began, executed,
                   prev>>

\* Execute, its tail: commit = true, then tx.Commit unless dry.  A commit the
\* database rejects leaves nothing of the transaction; the deferred function
\* does nothing because commit is already true.
ExecuteCommit ==
    /\ pc = "commit"
    /\ commit' = TRUE
    /\ pc' = "done"
    /\ IF dry
       THEN UNCHANGED <<ledger, data, txVars, sent, err>>
       ELSE \E ok \in BOOLEAN :
              /\ sent' = Append(sent, "commit")
              /\ txOpen' = FALSE
              /\ txLedger' = <<>>
              /\ txData' = <<>>
              /\ IF ok
                 THEN /\ ledger' = ledger \o txLedger
                      /\ data' = data \o txData
                      /\ UNCHANGED err
                 ELSE /\ err' = Error("commit", <<>>)
                      /\ UNCHANGED <<ledger, data>>
    /\ UNCHANGED <<other, fs, nsExists, tblExists, dry, would_have, old_list,
                   new_list, unran, idx, stats, runs, start, began, executed,
                   prev>>

\* The disks an invocation may find.
Disks == {d \in [RunFiles -> {0} \cup Contents] :
              \A p \in RunFiles : d[p] \in {0} \cup ContentsOf(p)}

Invoke == \E isDry \in BOOLEAN, disk \in Disks : StartRun(isDry, disk)

Next ==
    \/ Invoke
    \/ CreateSchemaSupport
    \/ LoadExisting
    \/ SearchFor
    \/ MergeLists
    \/ ExecuteBegin
    \/ ExecuteFile
    \/ ExecuteRecord
    \/ ExecuteCommit

Spec == Init /\ [][Next]_vars

\* ------------------------------------------------------------------------
\* Discovery alone: Search applied to any disk over SearchFiles
\* ------------------------------------------------------------------------

InitSearch ==
    /\ fs \in [SearchFiles -> {0, 1}]
    /\ pc = "search"
    /\ other = NoOther
    /\ InitDatabaseAndRun

NextSearch == SearchFor

SpecSearch == InitSearch /\ [][NextSearch]_vars

\* ------------------------------------------------------------------------
\* Two processes of the command against one database
\* ------------------------------------------------------------------------

\* What a process holds of its own: Run's locals, its Options, its connection
\* and the transaction on it.
Locals ==
    [pc |-> pc, dry |-> dry, would_have |-> would_have,
     old_list |-> old_list, new_list |-> new_list, unran |-> unran,
     idx |-> idx, stats |-> stats, err |-> err, commit |-> commit,
     txOpen |-> txOpen, txLedger |-> txLedger, txData |-> txData,
     sent |-> sent, began |-> began, executed |-> executed]

\* The scheduler suspends the running process and resumes the other one: each
\* continues from its own position over the shared disk and database.
Switch ==
    /\ other.pc # "none"
    /\ other' = Locals
    /\ pc' = other.pc
    /\ dry' = other.dry
    /\ would_have' = other.would_have
    /\ old_list' = other.old_list
    /\ new_list' = other.new_list
    /\ unran' = other.unran
    /\ idx' = other.idx
    /\ stats' = other.stats
    /\ err' = other.err
    /\ commit' = other.commit
    /\ txOpen' = other.txOpen
    /\ txLedger' = other.txLedger
    /\ txData' = other.txData
    /\ sent' = other.sent
    /\ began' = other.began
    /\ executed' = other.executed
    /\ UNCHANGED <<fs, dbVars, runs, start, prev>>

\* The disks of the two processes: the loose files only.
ConcurrentDisks == {d \in Disks : d[fileC] = 0 /\ d[fileD] = 0}

\* Two non-dry invocations were started on the same disk and database; both
\* are about to call CreateSchemaSupport.
InitConcurrent ==
    /\ fs \in ConcurrentDisks
    /\ InitDatabaseAndRun
    /\ pc = "create"
    /\ other = Locals

NextConcurrent ==
    \/ Switch
    \/ CreateSchemaSupport
    \/ LoadExisting
    \/ SearchFor
    \/ MergeLists
    \/ ExecuteBegin
    \/ ExecuteFile
    \/ ExecuteRecord
    \/ ExecuteCommit

SpecConcurrent == InitConcurrent /\ [][NextConcurrent]_vars

\* ------------------------------------------------------------------------
\* Properties
\* ------------------------------------------------------------------------

Finished == pc = "done"
Succeeded == pc = "done" /\ err = NoError

\* The discovered files whose path has no row in the ledger the Run started
\* with.
IsFresh(f) == f.Path \notin PathKeys(start.ledger)
FreshFiles == SelectSeq(new_list, IsFresh)

\* C1: after a non-dry Run that returns without error the ledger is the ledger
\* before the Run followed by exactly one row (path, fingerprint) for each
\* discovered file whose path had no row; no discovered file is taken up more
\* than once, and every discovered path has a row afterwards.
C1_ExactlyOnce ==
    (Succeeded /\ ~dry) =>
        /\ ledger = start.ledger \o FreshFiles
        /\ executed = FreshFiles
        /\ \A i, j \in 1..Len(executed) :
              executed[i].Path = executed[j].Path => i = j
        /\ \A i \in 1..Len(new_list) : new_list[i].Path \in PathKeys(ledger)

\* A successful non-dry Run that skipped an applied file and applied two new
\* ones.
C1_Witness ==
    /\ Succeeded /\ ~dry
    /\ start.ledger # <<>>
    /\ Len(ledger) >= Len(start.ledger) + 2
    /\ Len(new_list) > Len(unran)

\* C2: a non-dry Execute is atomic.  When a statement, a ledger insert or the
\* commit fails, the ledger and the statement effects are those the Run
\* started with; at no time does the database hold only a part of the plan.
C2_Atomic ==
    (~dry /\ began) =>
        /\ (Finished /\ err # NoError) =>
              ledger = start.ledger /\ data = start.data
        /\ \/ ledger = start.ledger /\ data = start.data
           \/ Succeeded /\ ledger = start.ledger \o unran
                        /\ Len(data) > Len(start.data)

\* The third file of a plan fails after two files were executed and recorded.
C2_Witness ==
    /\ Finished /\ ~dry /\ err.kind = "exec"
    /\ Len(executed) = 3
    /\ stats.New = 2
    /\ Len(unran) >= 3

\* C3: a Run over the discovered set of a successful non-dry Run before it has
\* an empty plan, opens no transaction, adds no ledger row, reports New = 0
\* and returns no error.
C3_Idempotent ==
    (Finished /\ prev.valid /\ ~prev.dry /\ prev.err = NoError) =>
        /\ unran = <<>>
        /\ ~began
        /\ ledger = start.ledger
        /\ stats.New = 0
        /\ err = NoError

\* The Run before applied two files; this one saw the same disk.
C3_Witness ==
    /\ Finished /\ prev.valid /\ ~prev.dry /\ prev.err = NoError
    /\ Len(prev.unran) >= 2
    /\ stats.Files >= 2

\* Position j of new_list holds a path the ledger has with another
\* fingerprint.
Drifted(j) ==
    \E i \in 1..Len(start.ledger) :
        /\ start.ledger[i].Path = new_list[j].Path
        /\ start.ledger[i].MD5 # new_list[j].MD5

\* Position j of new_list holds a fingerprint the ledger has under another
\* path.
DuplicateOf(j) ==
    \E i \in 1..Len(start.ledger) :
        /\ start.ledger[i].MD5 = new_list[j].MD5
        /\ start.ledger[i].Path # new_list[j].Path

\* Run returned from Merge's error: no plan, no transaction, no statement, the
\* database as it was.
StoppedBeforeExecute ==
    /\ unran = <<>>
    /\ ~began
    /\ sent = <<>>
    /\ Database = start

\* The error names a file that Search sorted before position j.
ErrorBefore(j) == \E i \in 1..(j - 1) : new_list[i].Path = err.path

First(S) == CHOOSE j \in S : \A k \in S : j <= k

\* C4 as stated: whenever the ledger holds a path with one fingerprint and the
\* discovered set holds it with another, Merge fails with the modified-file
\* error and Run stops before Execute.
C4_DriftAlwaysReported ==
    (Finished /\ \E j \in 1..Len(new_list) : Drifted(j)) =>
        /\ err.kind = "modified"
        /\ StoppedBeforeExecute

\* C4 as amended: in that case Merge fails and Run stops before Execute; the
\* error is the modified-file error for the first such file in sorted order,
\* unless a file sorted before it fails the duplicate-content check.
C4_DriftStopsRun ==
    (Finished /\ \E j \in 1..Len(new_list) : Drifted(j)) =>
        LET j == First({k \in 1..Len(new_list) : Drifted(k)})
        IN  /\ \/ err = Error("modified", new_list[j].Path)
               \/ err.kind = "duplicate" /\ ErrorBefore(j)
            /\ StoppedBeforeExecute

\* A modified file is reported while a new file waits on disk.
C4_Witness ==
    /\ Finished /\ err.kind = "modified"
    /\ \E j \in 1..Len(new_list) : Drifted(j)
    /\ \E j \in 1..Len(new_list) : ~IsFresh(new_list[j]) /\ ~Drifted(j)
    /\ \E j \in 1..Len(new_list) : IsFresh(new_list[j])

\* C5 as stated: whenever the ledger holds (P, F) and the discovered set holds
\* another path Q with fingerprint F, the Run fails with the duplicate-content
\* error and nothing is executed, whatever else the ledger holds.
C5_DuplicateAlwaysReported ==
    (Finished /\ \E j \in 1..Len(new_list) : DuplicateOf(j)) =>
        /\ err.kind = "duplicate"
        /\ StoppedBeforeExecute

\* C5 as amended: when Q has no row of its own, Merge fails and nothing is
\* executed; the error is the duplicate-content error for the first such file
\* in sorted order, unless a file sorted before it fails as modified.  A file
\* whose own path has a row with the same fingerprint is skipped instead.
C5_DuplicateStopsRun ==
    /\ (Finished /\ \E j \in 1..Len(new_list) :
                        DuplicateOf(j) /\ IsFresh(new_list[j])) =>
          LET j == First({k \in 1..Len(new_list) :
                             DuplicateOf(k) /\ IsFresh(new_list[k])})
          IN  /\ \/ err = Error("duplicate", new_list[j].Path)
                 \/ err.kind = "modified" /\ ErrorBefore(j)
              /\ StoppedBeforeExecute
    /\ Finished =>
          \A j \in 1..Len(new_list), i \in 1..Len(start.ledger) :
              start.ledger[i] = new_list[j] =>
                  \A k \in 1..Len(unran) : unran[k] # new_list[j]

\* A new path with a recorded fingerprint is reported while an applied file
\* is still on disk.
C5_Witness ==
    /\ Finished /\ err.kind = "duplicate"
    /\ \E j \in 1..Len(new_list) : DuplicateOf(j) /\ IsFresh(new_list[j])
    /\ \E j \in 1..Len(new_list) : ~IsFresh(new_list[j])

\* The order of the specification on a list of files: files without a
\* sequence id first and in lexical path order, then files with ids in
\* non-decreasing numeric order.
HasId(f) == FileListMatch(f.Path) # <<>>
IdOf(f) == Atoi(FileListMatch(f.Path))
InPlanOrder(list) ==
    \A i, j \in 1..Len(list) :
        i < j =>
            /\ HasId(list[i]) => HasId(list[j])
            /\ (~HasId(list[i]) /\ ~HasId(list[j])) =>
                   StrLess(list[i].Path, list[j].Path)
            /\ (HasId(list[i]) /\ HasId(list[j])) =>
                   IdOf(list[i]) <= IdOf(list[j])

\* sub is list with some elements left out.
RECURSIVE IsSubsequence(_, _)
IsSubsequence(sub, list) ==
    IF sub = <<>> THEN TRUE
    ELSE IF list = <<>> THEN FALSE
    ELSE IF Head(sub) = Head(list) THEN IsSubsequence(Tail(sub), Tail(list))
    ELSE IsSubsequence(sub, Tail(list))

\* C6: whatever the discovery order, the discovered list and the run plan are
\* in the order of the specification, Merge keeps the order of the files it
\* does not skip, and Execute takes the files up in the order of the plan.
C6_Ordering ==
    /\ InPlanOrder(new_list)
    /\ InPlanOrder(unran)
    /\ IsSubsequence(unran, new_list)
    /\ executed = SubSeq(unran, 1, Len(executed))
    /\ (Succeeded /\ began) => executed = unran

\* Four files found, one of them skipped: the file without id is applied
\* first, then id 1, whose path is lexically the larger, then id 2.
C6_Witness ==
    /\ Succeeded /\ ~dry
    /\ Len(executed) = 3
    /\ Len(new_list) = 4
    /\ ~HasId(executed[1])
    /\ HasId(executed[2]) /\ HasId(executed[3])
    /\ StrLess(executed[3].Path, executed[2].Path)

\* C7: a dry Run sends no mutating statement and leaves the database as it
\* was, at every step.
C7_DryWritesNothing ==
    dry => sent = <<>> /\ Database = start

\* A dry Run went through a plan of two files although the ledger table did
\* not exist.
C7_Witness ==
    /\ Succeeded /\ dry
    /\ ~start.tbl
    /\ Len(executed) >= 2
    /\ stats.New >= 2

\* The error of a Run as far as it arises before Execute.
PlanError(e) == IF e.kind \in PlanErrors THEN e ELSE NoError

\* C8: a non-dry Run that starts from the database and disk of a dry Run
\* reaches Execute with the plan the dry Run had, or fails before Execute with
\* the same error on the same file.
C8_DryEquivalent ==
    (Finished /\ prev.valid /\ prev.dry /\ ~dry /\ prev.start = start) =>
        /\ unran = prev.unran
        /\ PlanError(err) = PlanError(prev.err)

\* The pair of Runs started without a ledger table and had a plan.
C8_Witness ==
    /\ Finished /\ prev.valid /\ prev.dry /\ ~dry /\ prev.start = start
    /\ ~start.tbl
    /\ Len(unran) >= 2

\* The extension of a path is .sql or .csv.
IsChangeFile(p) ==
    \/ HasSuffix(p, <<".", "s", "q", "l">>)
    \/ HasSuffix(p, <<".", "c", "s", "v">>)

\* C9: Search returns every .sql or .csv file under the search root, at any
\* depth, and no other file.
C9_Recursive ==
    pc \in {"merge", "done"} =>
        {new_list[i].Path : i \in 1..Len(new_list)}
            = {p \in FilesOn(fs) : IsChangeFile(p)}

\* The directory a file lies in.
ParentDir(p) == Segments(p)[Len(Segments(p)) - 1]

\* The inserts the specification asks for: one per data row, in row order,
\* into the parent directory's table, an empty field bound as NULL.
ExpectedInserts(p, records) ==
    [r \in 1..(Len(records) - 1) |->
        InsertStatement(ParentDir(p), records[1],
            [i \in 1..Len(records[1]) |->
                IF records[r + 1][i] = "" THEN Null
                ELSE Text(records[r + 1][i])])]

RECURSIVE ExecCallsUpTo(_)
ExecCallsUpTo(n) ==
    IF n = 0 THEN 0
    ELSE ExecCallsUpTo(n - 1) + ExecCalls(unran[n].Path, fs[unran[n].Path])

\* C10: when a CSV file of m data rows has been executed, the transaction
\* holds exactly the m inserts of the specification for it, after the
\* statements of the files before it.
C10_CsvInserts ==
    (pc = "record" /\ ~dry /\ HasSuffix(unran[idx].Path, <<".", "c", "s", "v">>)) =>
        LET p == unran[idx].Path
            want == ExpectedInserts(p, CsvRecords(fs[p]))
        IN  /\ Len(txData) = ExecCallsUpTo(idx)
            /\ SubSeq(txData, Len(txData) - Len(want) + 1, Len(txData)) = want

\* ------------------------------------------------------------------------
\* The database after a Run that fails
\* ------------------------------------------------------------------------

\* A non-dry Run returned an error from Execute after db.Begin.
FailedInExecute == Finished /\ ~dry /\ began /\ err # NoError

\* C11 as stated: after a non-dry Run that fails in Execute the whole
\* database, the existence of the ledger's namespace and table included, is the
\* database the Run was called on.
C11_DatabaseAsBefore == FailedInExecute => Database = start

\* C11: after a non-dry Run that fails in Execute the ledger rows and the
\* statement effects are those the Run was called on and the transaction is
\* closed, while the ledger's namespace and table exist whether or not they
\* did before: the database differs from the one at the call exactly when the
\* table was missing.
C11_RowsAsBefore ==
    FailedInExecute =>
        /\ ledger = start.ledger
        /\ data = start.data
        /\ ~txOpen
        /\ nsExists /\ tblExists
        /\ (Database = start) <=> start.tbl

\* A Run called on a database without the namespace fails in Execute after it
\* recorded a file.
C11_Witness ==
    /\ FailedInExecute
    /\ ~start.ns
    /\ stats.New >= 1
    /\ sent[1] = "create schema"

\* ------------------------------------------------------------------------
\* The ledger over a sequence of Runs
\* ------------------------------------------------------------------------

IsPrefix(s, t) == Len(s) <= Len(t) /\ SubSeq(t, 1, Len(s)) = s

\* C12: the ledger is append-only.  No step of any Run, dry or not, succeeding
\* or failing, removes or changes a row: the ledger before the step is a
\* prefix of the ledger after it.
C12_AppendOnly == [][IsPrefix(ledger, ledger')]_vars

\* A Run added rows to a ledger that holds a row of a file no longer on disk.
C12_Witness ==
    /\ Succeeded /\ ~dry
    /\ Len(ledger) > Len(start.ledger)
    /\ \E i \in 1..Len(start.ledger) :
           /\ fs[start.ledger[i].Path] = 0
           /\ ledger[i] = start.ledger[i]

\* ------------------------------------------------------------------------
\* Execute's transaction and counter
\* ------------------------------------------------------------------------

\* C14: every transaction that Execute opened is closed, committed or rolled
\* back, when Execute has returned, on every path, dry or not.
C14_TxClosed == (Finished /\ began) => ~txOpen

\* C15 as stated: for every non-dry Run, successful or failed, the returned
\* Stats.New is the number of ledger rows the Run added.
C15_NewIsRowsAdded ==
    (Finished /\ ~dry) => stats.New = Len(ledger) - Len(start.ledger)

\* The files Execute recorded before it returned: the whole plan when it
\* reached the commit, else the files taken up before the one that failed.
Recorded ==
    IF ~began THEN 0
    ELSE IF err = NoError \/ err.kind = "commit" THEN Len(unran)
    ELSE Len(executed) - 1

\* C15: a non-dry Run that returns without error returns Stats.New equal to the
\* number of ledger rows it added; a non-dry Run that fails adds no row and
\* returns Stats.New equal to the number of files Execute had recorded in the
\* transaction before the failure.
C15_NewCounts ==
    (Finished /\ ~dry) =>
        /\ stats.New = Recorded
        /\ IF err = NoError
           THEN Len(ledger) - Len(start.ledger) = stats.New
           ELSE ledger = start.ledger

\* The commit of a plan of two files fails: New is 2, no row was added.
C15_Witness ==
    /\ Finished /\ ~dry
    /\ err.kind = "commit"
    /\ stats.New = 2
    /\ ledger = start.ledger

\* ------------------------------------------------------------------------
\* Uniqueness in the ledger
\* ------------------------------------------------------------------------

\* C16: after successful non-dry Runs from an empty ledger no two ledger rows
\* with different paths carry the same fingerprint, also when two new files
\* of the same content are discovered in one Run.
C16_FingerprintUnique ==
    (Succeeded /\ ~dry) =>
        \A i, j \in 1..Len(ledger) :
            ledger[i].MD5 = ledger[j].MD5 => ledger[i].Path = ledger[j].Path

\* C17: from an empty ledger, under Runs that do not overlap, no two ledger
\* rows carry the same path, and a row the ledger held when a Run was called
\* is held unchanged afterwards: each path keeps the fingerprint first
\* recorded for it.
C17_PathUnique ==
    /\ \A i, j \in 1..Len(ledger) :
           ledger[i].Path = ledger[j].Path => i = j
    /\ IsPrefix(start.ledger, ledger)
    /\ \A i \in 1..Len(txLedger) :
           txLedger[i].Path \notin PathKeys(ledger)

\* A later Run found a recorded file again, unchanged, beside a new one, and
\* the ledger holds three rows.
C17_Witness ==
    /\ Succeeded /\ ~dry
    /\ runs >= 2
    /\ Len(ledger) >= 3
    /\ Len(ledger) > Len(start.ledger)
    /\ \E i \in 1..Len(start.ledger) :
           fs[start.ledger[i].Path] # 0

\* ------------------------------------------------------------------------
\* A Run that fails before Execute
\* ------------------------------------------------------------------------

\* A non-dry Run returned the no-files, drift or duplicate-content error.
FailedBeforeExecute ==
    Finished /\ ~dry /\ err.kind \in {"nofiles", "modified", "duplicate"}

\* C18 as stated: when a non-dry Run returns the no-files, drift or
\* duplicate-content error, no transaction was opened and the database, the
\* existence of the ledger's namespace and table included, is the database the
\* Run was called on.
C18_DatabaseUntouched ==
    FailedBeforeExecute => (~began /\ Database = start)

\* C18: when a non-dry Run returns the no-files, drift or duplicate-content
\* error, no transaction was opened, no file statement was sent, and the
\* ledger rows and statement effects are those the Run was called on; the
\* ledger's namespace and table exist afterwards, so the database differs
\* from the one at the call exactly when the table was missing, which is
\* possible only for the no-files error.
C18_RowsUntouched ==
    FailedBeforeExecute =>
        /\ ~began /\ ~txOpen
        /\ \A i \in 1..Len(sent) : sent[i] \in {"create schema", "create table"}
        /\ ledger = start.ledger
        /\ data = start.data
        /\ nsExists /\ tblExists
        /\ (Database = start) <=> start.tbl
        /\ ~start.tbl => err.kind = "nofiles"

\* A Run called on a database without the ledger table finds no change file.
C18_Witness ==
    /\ FailedBeforeExecute
    /\ err.kind = "nofiles"
    /\ ~start.tbl
    /\ tblExists

\* ------------------------------------------------------------------------
\* Two Runs at once
\* ------------------------------------------------------------------------

\* Both processes have returned from Run without error.
BothSucceeded ==
    /\ pc = "done" /\ err = NoError
    /\ other.pc = "done" /\ other.err = NoError

\* C13: nothing in the database keeps two non-dry Runs from recording the same
\* file.  When both have returned without error the ledger holds every row of
\* both plans, one plan after the other; plans made from the same ledger and
\* disk are equal, so the ledger then holds two rows for each planned path.
C13_BothPlansRecorded ==
    BothSucceeded =>
        \/ ledger = start.ledger \o unran \o other.unran
        \/ ledger = start.ledger \o other.unran \o unran

\* Both Runs loaded the ledger before either committed, both executed the
\* same new file and both committed: two ledger rows carry the file's path.
C13_Witness ==
    /\ BothSucceeded
    /\ unran # <<>>
    /\ old_list = start.ledger /\ other.old_list = start.ledger
    /\ unran = other.unran
    /\ Len(executed) = Len(unran) /\ Len(other.executed) = Len(unran)
    /\ \E i, j \in 1..Len(ledger) :
           /\ i < j
           /\ ledger[i].Path = ledger[j].Path
           /\ ledger[i].Path = unran[1].Path

====
